---- MODULE Spec2Model ----
(***************************************************************************)
(* The volume command handlers of tsuru/client/volume.go: volume-create,   *)
(* volume-update, volume-list, volume-info, volume-plan-list,              *)
(* volume-delete, volume-bind and volume-unbind.                           *)
(*                                                                         *)
(* One behaviour is one command invocation.  Init is the state after the   *)
(* flag parser has filled the command struct and ctx.Args; the single      *)
(* step of a behaviour is the command's Run method, taken as a whole, with *)
(* the outcome of every call that leaves the process (AppName, form        *)
(* encoding, URL resolution, request construction, the transport, the      *)
(* body read, the JSON decoder, the response stream) drawn from a small    *)
(* set.                                                                    *)
(*                                                                         *)
(* A Go string is the sequence of its characters, each a one-character     *)
(* TLA+ string: <<"d", "1">> is "d1" and <<>> is "".  Fixed texts of the   *)
(* program (messages, headers, URL templates, form keys) are TLA+ strings. *)
(***************************************************************************)
EXTENDS Integers, Sequences, FiniteSets, TLC

VARIABLES
    cmd,        \* the command whose Run method the invocation dispatches to
    args,       \* ctx.Args
    c,          \* the command struct's flag fields
    pc,         \* "start" before Run, "done" after it returned
    env,        \* the outcome drawn for the calls Run makes outside this file
    requests,   \* the requests handed to client.Do, in order
    unmarshals, \* the number of json.Unmarshal calls
    volumes,    \* volume-list's local variable volumes when Run returned
    stdout,     \* what was written to ctx.Stdout, in order
    err         \* the error Run returned

vars == <<cmd, args, c, pc, env, requests, unmarshals, volumes, stdout, err>>

(***************************************************************************)
(* Bounds of the model.                                                    *)
(***************************************************************************)
MaxVolumes == 3   \* volumes in a decoded list response
MaxPlans == 2     \* plans of one provisioner in a decoded plan-list response
MaxChunks == 2    \* messages in a streamed response body

StatusNoContent == 204
\* The statuses of a response the transport hands back: one with a body, and
\* http.StatusNoContent.
Statuses == {200, StatusNoContent}

(***************************************************************************)
(* Strings.                                                                *)
(***************************************************************************)
CharCode(ch) ==
    CASE ch = "\n" -> 10
      [] ch = " "  -> 32
      [] ch = "1"  -> 49
      [] ch = "2"  -> 50
      [] ch = ":"  -> 58
      [] ch = "D"  -> 68
      [] ch = "a"  -> 97
      [] ch = "d"  -> 100
      [] ch = "e"  -> 101
      [] ch = "k"  -> 107
      [] ch = "m"  -> 109
      [] ch = "n"  -> 110
      [] ch = "p"  -> 112
      [] ch = "q"  -> 113
      [] ch = "r"  -> 114
      [] ch = "s"  -> 115
      [] ch = "t"  -> 116
      [] ch = "u"  -> 117
      [] ch = "w"  -> 119

\* Go's < on strings: bytewise lexicographic, a proper prefix first.
StrLess(a, b) ==
    \E i \in 1..(Len(b)) :
        /\ \A j \in 1..(i - 1) : j <= Len(a) /\ a[j] = b[j]
        /\ i - 1 <= Len(a)
        /\ \/ i = Len(a) + 1
           \/ i <= Len(a) /\ CharCode(a[i]) < CharCode(b[i])

\* strings.Contains(s, substr)
Contains(s, substr) ==
    \E i \in 0..(Len(s) - Len(substr)) :
        \A j \in 1..Len(substr) : s[i + j] = substr[j]

RECURSIVE Join(_, _)
\* strings.Join(elems, sep)
Join(elems, sep) ==
    IF elems = <<>> THEN <<>>
    ELSE IF Len(elems) = 1 THEN elems[1]
    ELSE elems[1] \o sep \o Join(Tail(elems), sep)

\* The sequences over S of length at most n.
SeqsUpTo(S, n) == UNION {[1..k -> S] : k \in 0..n}

(***************************************************************************)
(* Errors.  Each call that can fail returns an error of its own.           *)
(***************************************************************************)
Nil == [nil |-> TRUE]
ErrorOf(call) == [from |-> call]

\* What a Run method leaves behind: its output, its error, the requests it
\* sent, the decoder calls, and (volume-list) its local variable volumes.
Result(out, e, reqs, n, vols) ==
    [stdout |-> out, err |-> e, requests |-> reqs, unmarshals |-> n, volumes |-> vols]

\* fmt.Fprint / Fprintln / Fprintf of a fixed text
Text(s) == [text |-> s]
\* fmt.Fprintln(ctx.Stdout, v.Name)
NameLine(name) == [line |-> name]

\* formatter.JSON(ctx.Stdout, data): the decoded structure, pretty-printed
JSON(data) == [json |-> data]

\* tbl.String(): the headers, then the rows in the table's order
Table(headers, rows) == [headers |-> headers, rows |-> rows]

\* cmd.StreamJSONResponse writes each message of the body as it arrives
Chunk(m) == [chunk |-> m]

(***************************************************************************)
(* url.Values: a map from key to the list of its values.                   *)
(***************************************************************************)
\* make(url.Values)
NoValues == <<>>

\* url.Values.Set(key, value): the key's values become the one value
ValuesSet(vals, key, value) ==
    [k \in (DOMAIN vals) \cup {key} |-> IF k = key THEN <<value>> ELSE vals[k]]

\* url.Values.Encode(): one key=value pair per value of each key.  The pairs
\* come sorted by key, so the text is fixed by the set of pairs, which is
\* what the server parses back.
ValuesEncode(vals) ==
    UNION {{[key |-> k, value |-> vals[k][i]] : i \in 1..Len(vals[k])} : k \in DOMAIN vals}

\* http.NewRequest(method, u, body) on the URL cmd.GetURLVersion("1.4", path)
\* resolved; name is the volume name put into the path.
Request(method, path, name, query, form) ==
    [method |-> method, version |-> "1.4", path |-> path, name |-> name,
     query |-> query, form |-> form]

(***************************************************************************)
(* tablecli.Table: Sort and SortByColumn hand the rows to sort.Sort, which *)
(* is not stable: any order with no two rows out of order can come out.    *)
(***************************************************************************)
RECURSIVE RowLessBy(_, _, _)
\* rowSlice.Less (columns: every column, in order) and rowSliceByColumn.Less
RowLessBy(columns, a, b) ==
    IF columns = <<>> THEN FALSE
    ELSE IF a[Head(columns)] = b[Head(columns)] THEN RowLessBy(Tail(columns), a, b)
    ELSE StrLess(a[Head(columns)], b[Head(columns)])

RECURSIVE SortOutcomes(_, _, _)
\* The orders sort.Sort can leave the rows at the indexes idx in.
SortOutcomes(rows, idx, columns) ==
    IF idx = {} THEN {<<>>}
    ELSE UNION {{<<rows[i]>> \o rest : rest \in SortOutcomes(rows, idx \ {i}, columns)} :
                i \in {i \in idx : \A j \in idx : ~RowLessBy(columns, rows[j], rows[i])}}

\* tbl.Sort()
TableSort(rows) ==
    SortOutcomes(rows, DOMAIN rows, [i \in 1..(IF rows = <<>> THEN 0 ELSE Len(rows[1])) |-> i])

\* tbl.SortByColumn(columns...)
TableSortByColumn(rows, columns) == SortOutcomes(rows, DOMAIN rows, columns)

(***************************************************************************)
(* volume-list                                                             *)
(***************************************************************************)
\* A faulty queryString: the team criterion sent under the flag's name.
queryStringTeamKey(f) ==
    LET r0 == NoValues
        r1 == IF f.name # <<>> THEN ValuesSet(r0, "name", f.name) ELSE r0
        r2 == IF f.teamOwner # <<>> THEN ValuesSet(r1, "team", f.teamOwner) ELSE r1
        r3 == IF f.pool # <<>> THEN ValuesSet(r2, "pool", f.pool) ELSE r2
        r4 == IF f.plan # <<>> THEN ValuesSet(r3, "plan", f.plan) ELSE r3
    IN r4

\* volumeFilter.queryString
queryString(f) ==
    LET r0 == NoValues
        r1 == IF f.name # <<>> THEN ValuesSet(r0, "name", f.name) ELSE r0
        r2 == IF f.teamOwner # <<>> THEN ValuesSet(r1, "teamOwner", f.teamOwner) ELSE r1
        r3 == IF f.pool # <<>> THEN ValuesSet(r2, "pool", f.pool) ELSE r2
        r4 == IF f.plan # <<>> THEN ValuesSet(r3, "plan", f.plan) ELSE r3
    IN r4

\* A faulty loop body: the name criterion compared for equality instead of
\* containment.
insertExactName(f, v) ==
    LET i0 == TRUE
        i1 == IF f.name # <<>> /\ v.Name # f.name THEN FALSE ELSE i0
        i2 == IF f.pool # <<>> /\ v.Pool # f.pool THEN FALSE ELSE i1
        i3 == IF f.plan # <<>> /\ v.Plan.Name # f.plan THEN FALSE ELSE i2
        i4 == IF f.teamOwner # <<>> /\ v.TeamOwner # f.teamOwner THEN FALSE ELSE i3
    IN i4

\* The body of clientSideFilter's loop: whether v is appended to the result.
insert(f, v) ==
    LET i0 == TRUE
        i1 == IF f.name # <<>> /\ ~Contains(v.Name, f.name) THEN FALSE ELSE i0
        i2 == IF f.pool # <<>> /\ v.Pool # f.pool THEN FALSE ELSE i1
        i3 == IF f.plan # <<>> /\ v.Plan.Name # f.plan THEN FALSE ELSE i2
        i4 == IF f.teamOwner # <<>> /\ v.TeamOwner # f.teamOwner THEN FALSE ELSE i3
    IN i4

RECURSIVE clientSideFilterPrepend(_, _)
\* A faulty clientSideFilter: each kept volume put in front of the result.
clientSideFilterPrepend(f, vols) ==
    IF vols = <<>> THEN <<>>
    ELSE IF insert(f, Head(vols))
         THEN clientSideFilterPrepend(f, Tail(vols)) \o <<Head(vols)>>
         ELSE clientSideFilterPrepend(f, Tail(vols))

RECURSIVE clientSideFilter(_, _)
\* VolumeList.clientSideFilter
clientSideFilter(f, vols) ==
    IF vols = <<>> THEN <<>>
    ELSE IF insert(f, Head(vols))
         THEN <<Head(vols)>> \o clientSideFilter(f, Tail(vols))
         ELSE clientSideFilter(f, Tail(vols))

\* The rows VolumeList.render adds to the table, in the order it adds them.
ListRows(vols) == [i \in DOMAIN vols |-> <<vols[i].Name, vols[i].Plan.Name, vols[i].Pool, vols[i].TeamOwner>>]

ListHeaders == <<"Name", "Plan", "Pool", "Team">>

\* A faulty render: the json flag looked at before the simplified flag.
VolumeListRenderJSONFirst(cc, vols) ==
    IF cc.json THEN {<<JSON(vols)>>}
    ELSE IF cc.simplified THEN {[i \in DOMAIN vols |-> NameLine(vols[i].Name)]}
    ELSE {<<Table(ListHeaders, rows)>> : rows \in TableSort(ListRows(vols))}

\* VolumeList.render: what it can write to ctx.Stdout
VolumeListRender(cc, vols) ==
    IF cc.simplified THEN {[i \in DOMAIN vols |-> NameLine(vols[i].Name)]}
    ELSE IF cc.json THEN {<<JSON(vols)>>}
    ELSE {<<Table(ListHeaders, rows)>> : rows \in TableSort(ListRows(vols))}

\* A faulty Run: the body read and decoded before the status is looked at.
VolumeListRunDecodeFirst(cc, e) ==
    LET request == Request("GET", "/volumes?%s", <<>>, ValuesEncode(queryString(cc.filter)), {})
        filtered == clientSideFilter(cc.filter, e.body)
    IN  IF e.fault \in {"GetURLVersion", "NewRequest"}
        THEN {Result(<<>>, ErrorOf(e.fault), <<>>, 0, <<>>)}
        ELSE IF e.fault = "Do"
        THEN {Result(<<>>, ErrorOf(e.fault), <<request>>, 0, <<>>)}
        ELSE IF e.fault = "ReadAll"
        THEN {Result(<<>>, ErrorOf(e.fault), <<request>>, 0, <<>>)}
        ELSE IF e.fault = "Unmarshal"
        THEN {Result(<<>>, ErrorOf(e.fault), <<request>>, 1, <<>>)}
        ELSE IF e.status = StatusNoContent
        THEN {Result(<<Text("No volumes available.\n")>>, Nil, <<request>>, 1, <<>>)}
        ELSE {Result(out, Nil, <<request>>, 1, filtered) : out \in VolumeListRender(cc, filtered)}

\* VolumeList.Run: the results it can return
VolumeListRun(cc, e) ==
    LET request == Request("GET", "/volumes?%s", <<>>, ValuesEncode(queryString(cc.filter)), {})
        filtered == clientSideFilter(cc.filter, e.body)
    IN  IF e.fault \in {"GetURLVersion", "NewRequest"}
        THEN {Result(<<>>, ErrorOf(e.fault), <<>>, 0, <<>>)}
        ELSE IF e.fault = "Do"
        THEN {Result(<<>>, ErrorOf(e.fault), <<request>>, 0, <<>>)}
        ELSE IF e.status = StatusNoContent
        THEN {Result(<<Text("No volumes available.\n")>>, Nil, <<request>>, 0, <<>>)}
        ELSE IF e.fault = "ReadAll"
        THEN {Result(<<>>, ErrorOf(e.fault), <<request>>, 0, <<>>)}
        ELSE IF e.fault = "Unmarshal"
        THEN {Result(<<>>, ErrorOf(e.fault), <<request>>, 1, <<>>)}
        ELSE {Result(out, Nil, <<request>>, 1, filtered) : out \in VolumeListRender(cc, filtered)}
(***************************************************************************)
(* form.EncodeToValues: one key per leaf of the value, a nested field or   *)
(* map entry addressed as Outer.inner.  No field of these structs is       *)
(* tagged omitempty, so every field gets its key; a zero value (an empty   *)
(* string, false, a nil map or slice) is written as the empty string.      *)
(***************************************************************************)
FormKey(field) == [field |-> field]
FormMapKey(field, key) == [field |-> field, key |-> key]

\* A map field: one key per entry, or the bare field with "" when empty.
EncodeMap(field, m) ==
    IF DOMAIN m = {} THEN [k \in {FormKey(field)} |-> <<<<>>>>]
    ELSE [k \in {FormMapKey(field, x) : x \in DOMAIN m} |-> <<m[k.key]>>]

\* A bool field: "true", or "" for the zero value false.
EncodeBool(b) == IF b THEN <<"t", "r", "u", "e">> ELSE <<>>

\* form.EncodeToValues(vol) of a volumeTypes.Volume without binds or plan
\* options, as create and update build it.
EncodeVolume(vol) ==
    LET fields == [k \in {FormKey("Name"), FormKey("Pool"), FormKey("TeamOwner"),
                          FormKey("Plan.Name"), FormKey("Plan.Opts"), FormKey("Binds")} |->
                      CASE k.field = "Name" -> <<vol.Name>>
                        [] k.field = "Pool" -> <<vol.Pool>>
                        [] k.field = "TeamOwner" -> <<vol.TeamOwner>>
                        [] k.field = "Plan.Name" -> <<vol.Plan.Name>>
                        [] OTHER -> <<<<>>>>]
        opts == EncodeMap("Opts", vol.Opts)
    IN  [k \in (DOMAIN fields) \cup (DOMAIN opts) |->
            IF k \in DOMAIN opts THEN opts[k] ELSE fields[k]]

\* form.EncodeToValues(bind) of VolumeBind.Run's struct
EncodeBind(bind) ==
    [k \in {FormKey("App"), FormKey("MountPoint"), FormKey("ReadOnly"), FormKey("NoRestart")} |->
        CASE k.field = "App" -> <<bind.App>>
          [] k.field = "MountPoint" -> <<bind.MountPoint>>
          [] k.field = "ReadOnly" -> <<EncodeBool(bind.ReadOnly)>>
          [] OTHER -> <<EncodeBool(bind.NoRestart)>>]

\* form.EncodeToValues(bind) of VolumeUnbind.Run's struct
EncodeUnbind(bind) ==
    [k \in {FormKey("App"), FormKey("MountPoint"), FormKey("NoRestart")} |->
        CASE k.field = "App" -> <<bind.App>>
          [] k.field = "MountPoint" -> <<bind.MountPoint>>
          [] OTHER -> <<EncodeBool(bind.NoRestart)>>]

(***************************************************************************)
(* volume-create, volume-update, volume-delete                             *)
(***************************************************************************)
\* A faulty literal: the pool and team flags exchanged.
NewVolumeSwapped(a, cc) ==
    [Name |-> a[1], Plan |-> [Name |-> a[2], Opts |-> <<>>], Pool |-> cc.team,
     TeamOwner |-> cc.pool, Opts |-> cc.opt, Binds |-> <<>>]

\* The volumeTypes.Volume literal of VolumeCreate.Run and VolumeUpdate.Run
NewVolume(a, cc) ==
    [Name |-> a[1], Plan |-> [Name |-> a[2], Opts |-> <<>>], Pool |-> cc.pool,
     TeamOwner |-> cc.team, Opts |-> cc.opt, Binds |-> <<>>]

\* A faulty Run: the call made again when the transport fails.
VolumeCreateRunRetry(a, cc, e) ==
    LET request == Request("POST", "/volumes", <<>>, {}, ValuesEncode(EncodeVolume(NewVolume(a, cc))))
    IN  IF e.fault \in {"EncodeToValues", "GetURLVersion", "NewRequest"}
        THEN {Result(<<>>, ErrorOf(e.fault), <<>>, 0, <<>>)}
        ELSE IF e.fault = "Do"
        THEN {Result(<<>>, ErrorOf(e.fault), <<request, request>>, 0, <<>>)}
        ELSE {Result(<<Text("Volume successfully created.\n")>>, Nil, <<request>>, 0, <<>>)}

\* VolumeCreate.Run
VolumeCreateRun(a, cc, e) ==
    LET request == Request("POST", "/volumes", <<>>, {}, ValuesEncode(EncodeVolume(NewVolume(a, cc))))
    IN  IF e.fault \in {"EncodeToValues", "GetURLVersion", "NewRequest"}
        THEN {Result(<<>>, ErrorOf(e.fault), <<>>, 0, <<>>)}
        ELSE IF e.fault = "Do"
        THEN {Result(<<>>, ErrorOf(e.fault), <<request>>, 0, <<>>)}
        ELSE {Result(<<Text("Volume successfully created.\n")>>, Nil, <<request>>, 0, <<>>)}

\* VolumeUpdate.Run
VolumeUpdateRun(a, cc, e) ==
    LET request == Request("POST", "/volumes/%s", a[1], {}, ValuesEncode(EncodeVolume(NewVolume(a, cc))))
    IN  IF e.fault \in {"EncodeToValues", "GetURLVersion", "NewRequest"}
        THEN {Result(<<>>, ErrorOf(e.fault), <<>>, 0, <<>>)}
        ELSE IF e.fault = "Do"
        THEN {Result(<<>>, ErrorOf(e.fault), <<request>>, 0, <<>>)}
        ELSE {Result(<<Text("Volume successfully updated.\n")>>, Nil, <<request>>, 0, <<>>)}

\* A faulty Run: the transport's error not looked at.
VolumeDeleteRunUnchecked(a, e) ==
    LET request == Request("DELETE", "/volumes/%s", a[1], {}, {})
    IN  IF e.fault \in {"GetURLVersion", "NewRequest"}
        THEN {Result(<<>>, ErrorOf(e.fault), <<>>, 0, <<>>)}
        ELSE {Result(<<Text("Volume successfully deleted.\n")>>, Nil, <<request>>, 0, <<>>)}

\* VolumeDelete.Run
VolumeDeleteRun(a, e) ==
    LET request == Request("DELETE", "/volumes/%s", a[1], {}, {})
    IN  IF e.fault \in {"GetURLVersion", "NewRequest"}
        THEN {Result(<<>>, ErrorOf(e.fault), <<>>, 0, <<>>)}
        ELSE IF e.fault = "Do"
        THEN {Result(<<>>, ErrorOf(e.fault), <<request>>, 0, <<>>)}
        ELSE {Result(<<Text("Volume successfully deleted.\n")>>, Nil, <<request>>, 0, <<>>)}

(***************************************************************************)
(* volume-bind, volume-unbind                                              *)
(***************************************************************************)
\* What cmd.StreamJSONResponse wrote of the body before it returned.
Streamed(body) == [i \in DOMAIN body |-> Chunk(body[i])]

\* A faulty Run: the confirmation written before the response is streamed.
VolumeBindRunConfirmFirst(a, cc, e) ==
    LET bind == [App |-> cc.app, MountPoint |-> a[2], ReadOnly |-> cc.readOnly,
                 NoRestart |-> cc.noRestart]
        request == Request("POST", "/volumes/%s/bind", a[1], {}, ValuesEncode(EncodeBind(bind)))
    IN  IF e.fault \in {"AppName", "EncodeToValues", "GetURLVersion", "NewRequest"}
        THEN {Result(<<>>, ErrorOf(e.fault), <<>>, 0, <<>>)}
        ELSE IF e.fault = "Do"
        THEN {Result(<<>>, ErrorOf(e.fault), <<request>>, 0, <<>>)}
        ELSE IF e.fault = "StreamJSONResponse"
        THEN {Result(<<Text("Volume successfully bound.\n")>> \o Streamed(e.body),
                     ErrorOf(e.fault), <<request>>, 0, <<>>)}
        ELSE {Result(<<Text("Volume successfully bound.\n")>> \o Streamed(e.body), Nil,
                     <<request>>, 0, <<>>)}

\* VolumeBind.Run; ctx.RawOutput() writes nothing.
VolumeBindRun(a, cc, e) ==
    LET bind == [App |-> cc.app, MountPoint |-> a[2], ReadOnly |-> cc.readOnly,
                 NoRestart |-> cc.noRestart]
        request == Request("POST", "/volumes/%s/bind", a[1], {}, ValuesEncode(EncodeBind(bind)))
    IN  IF e.fault \in {"AppName", "EncodeToValues", "GetURLVersion", "NewRequest"}
        THEN {Result(<<>>, ErrorOf(e.fault), <<>>, 0, <<>>)}
        ELSE IF e.fault = "Do"
        THEN {Result(<<>>, ErrorOf(e.fault), <<request>>, 0, <<>>)}
        ELSE IF e.fault = "StreamJSONResponse"
        THEN {Result(Streamed(e.body), ErrorOf(e.fault), <<request>>, 0, <<>>)}
        ELSE {Result(Streamed(e.body) \o <<Text("Volume successfully bound.\n")>>, Nil,
                     <<request>>, 0, <<>>)}

\* VolumeUnbind.Run; ctx.RawOutput() writes nothing.
VolumeUnbindRun(a, cc, e) ==
    LET bind == [App |-> cc.app, MountPoint |-> a[2], NoRestart |-> cc.noRestart]
        request == Request("DELETE", "/volumes/%s/bind?%s", a[1], ValuesEncode(EncodeUnbind(bind)), {})
    IN  IF e.fault \in {"AppName", "EncodeToValues", "GetURLVersion", "NewRequest"}
        THEN {Result(<<>>, ErrorOf(e.fault), <<>>, 0, <<>>)}
        ELSE IF e.fault = "Do"
        THEN {Result(<<>>, ErrorOf(e.fault), <<request>>, 0, <<>>)}
        ELSE IF e.fault = "StreamJSONResponse"
        THEN {Result(Streamed(e.body), ErrorOf(e.fault), <<request>>, 0, <<>>)}
        ELSE {Result(Streamed(e.body) \o <<Text("Volume successfully unbound.\n")>>, Nil,
                     <<request>>, 0, <<>>)}
(***************************************************************************)
(* volume-info                                                             *)
(***************************************************************************)
\* The orders in which a range over a map with the keys S can visit them.
Orders(S) ==
    {o \in [1..Cardinality(S) -> S] : \A i, j \in 1..Cardinality(S) : o[i] = o[j] => i = j}

\* fmt.Fprintf(ctx.Stdout, "Name: %s\nPlan: %s\nPool: %s\nTeam: %s\n", ...)
Summary(volume) ==
    [summary |-> <<volume.Name, volume.Plan.Name, volume.Pool, volume.TeamOwner>>]

\* The rows of the Binds table, which is not sorted.
BindRows(binds) ==
    [i \in DOMAIN binds |->
        <<binds[i].ID.App, binds[i].ID.MountPoint,
          IF binds[i].ReadOnly THEN <<"r", "o">> ELSE <<"r", "w">>>>]

\* The Key/Value tables of Plan Opts and Opts: one row per entry in the
\* map's iteration order, then Sort().
OptsTables(m) ==
    UNION {TableSort([i \in DOMAIN o |-> <<o[i], m[o[i]]>>]) : o \in Orders(DOMAIN m)}

\* VolumeInfo.render
VolumeInfoRender(volume) ==
    {<<Summary(volume),
       Text("\nBinds:\n"), Table(<<"App", "MountPoint", "Mode">>, BindRows(volume.Binds)),
       Text("\nPlan Opts:\n"), Table(<<"Key", "Value">>, planOpts),
       Text("\nOpts:\n"), Table(<<"Key", "Value">>, opts)>> :
        planOpts \in OptsTables(volume.Plan.Opts), opts \in OptsTables(volume.Opts)}

\* VolumeInfo.Run
VolumeInfoRun(a, cc, e) ==
    LET request == Request("GET", "/volumes/%s", a[1], {}, {})
    IN  IF e.fault \in {"GetURLVersion", "NewRequest"}
        THEN {Result(<<>>, ErrorOf(e.fault), <<>>, 0, <<>>)}
        ELSE IF e.fault = "Do"
        THEN {Result(<<>>, ErrorOf(e.fault), <<request>>, 0, <<>>)}
        ELSE IF e.status = StatusNoContent
        THEN {Result(<<Text("No volumes available.\n")>>, Nil, <<request>>, 0, <<>>)}
        ELSE IF e.fault = "ReadAll"
        THEN {Result(<<>>, ErrorOf(e.fault), <<request>>, 0, <<>>)}
        ELSE IF e.fault = "Unmarshal"
        THEN {Result(<<>>, ErrorOf(e.fault), <<request>>, 1, <<>>)}
        ELSE IF cc.json
        THEN {Result(<<JSON(e.body[1])>>, Nil, <<request>>, 1, <<>>)}
        ELSE {Result(out, Nil, <<request>>, 1, <<>>) : out \in VolumeInfoRender(e.body[1])}

(***************************************************************************)
(* volume-plan-list                                                        *)
(***************************************************************************)
\* sort.Strings(opts)
SortStrings(strs) ==
    {[i \in DOMAIN r |-> r[i][1]] : r \in SortOutcomes([i \in DOMAIN strs |-> <<strs[i]>>], DOMAIN strs, <<1>>)}

\* The Opts cell of a plan: fmt.Sprintf("%s: %v", k, v) per entry in the
\* map's iteration order, sorted, joined by newlines.
OptsCells(planOpts) ==
    UNION {{Join(sorted, <<"\n">>) :
              sorted \in SortStrings([i \in DOMAIN o |-> o[i] \o <<":", " ">> \o planOpts[o[i]]])} :
           o \in Orders(DOMAIN planOpts)}

RECURSIVE ProvisionerRows(_, _)
\* The rows the inner loop adds for one provisioner's plans, in their order.
ProvisionerRows(provisioner, provPlans) ==
    IF provPlans = <<>> THEN {<<>>}
    ELSE {<<<<Head(provPlans).Name, provisioner, cell>>>> \o rest :
            cell \in OptsCells(Head(provPlans).Opts),
            rest \in ProvisionerRows(provisioner, Tail(provPlans))}

RECURSIVE PlanRowsIn(_, _)
\* The rows the outer loop adds when it visits the provisioners in order o.
PlanRowsIn(plans, o) ==
    IF o = <<>> THEN {<<>>}
    ELSE {first \o rest : first \in ProvisionerRows(Head(o), plans[Head(o)]),
                          rest \in PlanRowsIn(plans, Tail(o))}

\* The rows added before the sort, for every iteration order of the map.
PlanRows(plans) == UNION {PlanRowsIn(plans, o) : o \in Orders(DOMAIN plans)}

PlanHeaders == <<"Plan", "Provisioner", "Opts">>

\* A faulty render: the table sorted by its first column alone.
VolumePlansListRenderByPlan(plans) ==
    {<<Table(PlanHeaders, sorted)>> :
        sorted \in UNION {TableSortByColumn(rows, <<1>>) : rows \in PlanRows(plans)}}

\* VolumePlansList.render: tbl.SortByColumn(0, 1) sorts by the first, then
\* the second column.
VolumePlansListRender(plans) ==
    {<<Table(PlanHeaders, sorted)>> :
        sorted \in UNION {TableSortByColumn(rows, <<1, 2>>) : rows \in PlanRows(plans)}}

\* VolumePlansList.Run; a nil map ranges like an empty one.
VolumePlansListRun(e) ==
    LET request == Request("GET", "/volumeplans", <<>>, {}, {})
    IN  IF e.fault \in {"GetURLVersion", "NewRequest"}
        THEN {Result(<<>>, ErrorOf(e.fault), <<>>, 0, <<>>)}
        ELSE IF e.fault = "Do"
        THEN {Result(<<>>, ErrorOf(e.fault), <<request>>, 0, <<>>)}
        ELSE IF e.status # StatusNoContent /\ e.fault = "ReadAll"
        THEN {Result(<<>>, ErrorOf(e.fault), <<request>>, 0, <<>>)}
        ELSE IF e.status # StatusNoContent /\ e.fault = "Unmarshal"
        THEN {Result(<<>>, ErrorOf(e.fault), <<request>>, 1, <<>>)}
        ELSE LET plans == IF e.status # StatusNoContent THEN e.body[1] ELSE <<>>
                 n == IF e.status # StatusNoContent THEN 1 ELSE 0
             IN  {Result(out, Nil, <<request>>, n, <<>>) : out \in VolumePlansListRender(plans)}
(***************************************************************************)
(* The invocations and outcomes the model draws from.                      *)
(***************************************************************************)
d1 == <<"d", "1">>
d2 == <<"d", "2">>

\* The volumes a list response can hold.
Volumes ==
    {[Name |-> n, Plan |-> [Name |-> <<"n">>, Opts |-> <<>>], Pool |-> p, TeamOwner |-> <<"t">>,
      Opts |-> <<>>, Binds |-> <<>>] :
        n \in {d1, d2}, p \in {<<"p">>, <<"q">>}}

\* The values of volume-list's -n, -o, -p and -t flags.
Filters ==
    [name : {<<>>, <<"d">>, <<"2">>, <<"D">>, d2, <<"2", "d">>},
     pool : {<<>>, <<"p">>},
     plan : {<<>>, <<"n">>, <<"m">>},
     teamOwner : {<<>>, <<"t">>, <<"u">>}]

\* The values of -o/--opt: no option, one, two.
OptMaps == {<<>>, (<<"a">> :> <<"1">>), (<<"a">> :> <<"1">>) @@ (<<"k">> :> <<>>)}

\* The volumes an info response can hold.
InfoVolumes ==
    {[Name |-> d1, Plan |-> [Name |-> <<"n">>, Opts |-> po], Pool |-> <<"p">>,
      TeamOwner |-> <<"t">>, Opts |-> o, Binds |-> b] :
        po \in {<<>>, (<<"s">> :> <<"1">>) @@ (<<"a">> :> <<"r", "w">>)},
        o \in {<<>>, (<<"k">> :> <<"2">>)},
        b \in {<<>>, <<[ID |-> [App |-> <<"a">>, MountPoint |-> <<"m">>], ReadOnly |-> TRUE],
                       [ID |-> [App |-> <<"a">>, MountPoint |-> <<"d">>], ReadOnly |-> FALSE]>>}}

\* The plans and the plan-list responses: a provisioner is absent or has a
\* list of plans.
Plans ==
    {[Name |-> <<"n">>, Opts |-> <<>>],
     [Name |-> <<"n">>, Opts |-> (<<"s">> :> <<"1">>) @@ (<<"a">> :> <<"r", "w">>)],
     [Name |-> <<"e">>, Opts |-> <<>>]}

PlanMaps ==
    UNION {[provs -> SeqsUpTo(Plans, MaxPlans)] : provs \in SUBSET {<<"d">>, <<"k">>}}

\* The bodies of a streamed response.
Streams == SeqsUpTo({<<"1">>, <<"2">>}, MaxChunks)

Outcome(fault, status, body) == [fault |-> fault, status |-> status, body |-> body]

\* No response: the call before the transport, or the transport, failed.
Failed(faults) == {Outcome(f, 0, <<>>) : f \in faults}

\* A response to a read command: 204 ends Run before the body is read, so a
\* body that cannot be read or decoded shows only under another status.
ReadOutcomes(bodies) ==
    Failed({"GetURLVersion", "NewRequest", "Do"})
        \cup {Outcome(f, st, <<>>) : f \in {"none", "ReadAll", "Unmarshal"}, st \in {StatusNoContent}}
        \cup {Outcome(f, st, <<>>) : f \in {"ReadAll", "Unmarshal"}, st \in Statuses \ {StatusNoContent}}
        \cup {Outcome("none", st, b) : st \in Statuses \ {StatusNoContent}, b \in bodies}

\* A response to a write command, with the body the server sent.
WriteOutcomes(faults) ==
    Failed(faults) \cup {Outcome("none", st, b) : st \in Statuses \ {StatusNoContent}, b \in Streams}

\* A response to bind and unbind: the stream can fail after any message.
StreamOutcomes ==
    WriteOutcomes({"AppName", "EncodeToValues", "GetURLVersion", "NewRequest", "Do"})
        \cup {Outcome("StreamJSONResponse", st, b) : st \in Statuses \ {StatusNoContent}, b \in Streams}

NoFilter == [name |-> <<>>, pool |-> <<>>, plan |-> <<>>, teamOwner |-> <<>>]

\* The flag fields at their defaults.
NoFlags ==
    [pool |-> <<>>, team |-> <<>>, opt |-> <<>>, filter |-> NoFilter, simplified |-> FALSE,
     json |-> FALSE, app |-> <<>>, readOnly |-> FALSE, noRestart |-> FALSE]

Commands ==
    {"volume-create", "volume-update", "volume-list", "volume-info", "volume-plan-list",
     "volume-delete", "volume-bind", "volume-unbind"}

\* ctx.Args and the flags of an invocation of command k.
Invocation(k, a, cc) ==
    CASE k \in {"volume-create", "volume-update"} ->
            /\ a \in {<<d1, <<"n">>>>, <<d2, <<"m">>>>}
            /\ cc \in {[NoFlags EXCEPT !.pool = p, !.team = t, !.opt = o] :
                         p \in {<<>>, <<"p">>}, t \in {<<>>, <<"t">>}, o \in OptMaps}
      [] k = "volume-list" ->
            /\ a = <<>>
            /\ cc \in {[NoFlags EXCEPT !.filter = f, !.simplified = q, !.json = j] :
                         f \in Filters, q \in BOOLEAN, j \in BOOLEAN}
      [] k = "volume-info" ->
            /\ a \in {<<d1>>, <<d2>>}
            /\ cc \in {[NoFlags EXCEPT !.json = j] : j \in BOOLEAN}
      [] k = "volume-plan-list" ->
            /\ a = <<>>
            /\ cc = NoFlags
      [] k = "volume-delete" ->
            /\ a \in {<<d1>>, <<d2>>}
            /\ cc = NoFlags
      [] k = "volume-bind" ->
            /\ a \in {<<d1, <<"m">>>>, <<d2, <<"d">>>>}
            /\ cc \in {[NoFlags EXCEPT !.app = <<"a">>, !.readOnly = r, !.noRestart = n] :
                         r \in BOOLEAN, n \in BOOLEAN}
      [] k = "volume-unbind" ->
            /\ a \in {<<d1, <<"m">>>>, <<d2, <<"d">>>>}
            /\ cc \in {[NoFlags EXCEPT !.app = <<"a">>, !.noRestart = n] : n \in BOOLEAN}

Init ==
    /\ cmd \in Commands
    /\ Invocation(cmd, args, c)
    /\ pc = "start"
    /\ env = Outcome("none", 0, <<>>)
    /\ requests = <<>>
    /\ unmarshals = 0
    /\ volumes = <<>>
    /\ stdout = <<>>
    /\ err = Nil

\* Run returned r under the outcome e.
Return(e, r) ==
    /\ pc' = "done"
    /\ env' = e
    /\ requests' = r.requests
    /\ unmarshals' = r.unmarshals
    /\ volumes' = r.volumes
    /\ stdout' = r.stdout
    /\ err' = r.err
    /\ UNCHANGED <<cmd, args, c>>

VolumeCreate ==
    /\ pc = "start" /\ cmd = "volume-create"
    /\ \E e \in WriteOutcomes({"EncodeToValues", "GetURLVersion", "NewRequest", "Do"}) :
         \E r \in VolumeCreateRun(args, c, e) : Return(e, r)

VolumeUpdate ==
    /\ pc = "start" /\ cmd = "volume-update"
    /\ \E e \in WriteOutcomes({"EncodeToValues", "GetURLVersion", "NewRequest", "Do"}) :
         \E r \in VolumeUpdateRun(args, c, e) : Return(e, r)

VolumeList ==
    /\ pc = "start" /\ cmd = "volume-list"
    /\ \E e \in ReadOutcomes(SeqsUpTo(Volumes, MaxVolumes)) :
         \E r \in VolumeListRun(c, e) : Return(e, r)

VolumeInfo ==
    /\ pc = "start" /\ cmd = "volume-info"
    /\ \E e \in ReadOutcomes({<<v>> : v \in InfoVolumes}) :
         \E r \in VolumeInfoRun(args, c, e) : Return(e, r)

VolumePlansList ==
    /\ pc = "start" /\ cmd = "volume-plan-list"
    /\ \E e \in ReadOutcomes({<<m>> : m \in PlanMaps}) :
         \E r \in VolumePlansListRun(e) : Return(e, r)

VolumeDelete ==
    /\ pc = "start" /\ cmd = "volume-delete"
    /\ \E e \in WriteOutcomes({"GetURLVersion", "NewRequest", "Do"}) :
         \E r \in VolumeDeleteRun(args, e) : Return(e, r)

VolumeBind ==
    /\ pc = "start" /\ cmd = "volume-bind"
    /\ \E e \in StreamOutcomes : \E r \in VolumeBindRun(args, c, e) : Return(e, r)

VolumeUnbind ==
    /\ pc = "start" /\ cmd = "volume-unbind"
    /\ \E e \in StreamOutcomes : \E r \in VolumeUnbindRun(args, c, e) : Return(e, r)

Next ==
    \/ VolumeCreate
    \/ VolumeUpdate
    \/ VolumeList
    \/ VolumeInfo
    \/ VolumePlansList
    \/ VolumeDelete
    \/ VolumeBind
    \/ VolumeUnbind

Spec == Init /\ [][Next]_vars
(***************************************************************************)
(* Properties.                                                             *)
(***************************************************************************)
Returned(k) == pc = "done" /\ cmd = k

\* Run got a response with a body it went on to use.
Answered == pc = "done" /\ err = Nil /\ env.status # StatusNoContent

\* sub occurs in s as a run of consecutive characters, compared exactly.
IsSubstring(s, sub) == \E i \in 1..(Len(s) + 1), j \in 0..Len(s) : SubSeq(s, i, j) = sub

\* The four comparisons of the filter criteria f on the volume v.
Matches(v, f) ==
    /\ f.name = <<>> \/ IsSubstring(v.Name, f.name)
    /\ f.pool = <<>> \/ v.Pool = f.pool
    /\ f.plan = <<>> \/ v.Plan.Name = f.plan
    /\ f.teamOwner = <<>> \/ v.TeamOwner = f.teamOwner

\* C1: the client-side filter of volume-list keeps a volume of the decoded
\* response if and only if all four comparisons hold (name: case-sensitive
\* substring; pool, plan, team: equality; an empty criterion always holds);
\* with all four criteria empty every volume is kept.
C1_FilterKeepsMatches ==
    (Returned("volume-list") /\ Answered) =>
        /\ \A i \in DOMAIN env.body :
              (\E j \in DOMAIN volumes : volumes[j] = env.body[i]) <=> Matches(env.body[i], c.filter)
        /\ c.filter = NoFilter => volumes = env.body

\* C1's case: the filter {pool: "p"} on the volumes d1 (pool p) and d2
\* (pool q) keeps exactly d1.
C1_Witness ==
    /\ Returned("volume-list") /\ Answered
    /\ c.filter = [NoFilter EXCEPT !.pool = <<"p">>]
    /\ Len(env.body) = 2
    /\ env.body[1].Name = d1 /\ env.body[1].Pool = <<"p">>
    /\ env.body[2].Name = d2 /\ env.body[2].Pool = <<"q">>
    /\ Len(volumes) = 1 /\ volumes[1] = env.body[1]

\* The subsequence of the decoded response that satisfies the criteria.
Matching == SelectSeq(env.body, LAMBDA v : Matches(v, c.filter))

\* C2: in name-only mode and in JSON mode volume-list emits exactly the
\* subsequence of the decoded response that satisfies the criteria, in the
\* order the server returned it.
C2_EmitsMatchingInOrder ==
    (Returned("volume-list") /\ Answered) =>
        /\ c.simplified => stdout = [i \in DOMAIN Matching |-> NameLine(Matching[i].Name)]
        /\ (~c.simplified /\ c.json) => stdout = <<JSON(Matching)>>

\* C2's case: the server ignored the pool filter; of d2 (pool p), d1 (pool
\* q), d1 (pool p) name-only mode shows the first and the last, d2 before
\* d1 as the server returned them.
C2_Witness ==
    /\ Returned("volume-list") /\ Answered
    /\ c.simplified
    /\ c.filter = [NoFilter EXCEPT !.pool = <<"p">>]
    /\ Len(env.body) = 3
    /\ env.body[1].Name = d2 /\ env.body[1].Pool = <<"p">>
    /\ env.body[2].Name = d1 /\ env.body[2].Pool = <<"q">>
    /\ env.body[3].Name = d1 /\ env.body[3].Pool = <<"p">>
    /\ stdout = <<NameLine(d2), NameLine(d1)>>

\* C3: volume-list produces one output mode, by the priority name-only,
\* then JSON, then table: with -q only names (also with --json), otherwise
\* with --json one JSON document, otherwise one table.
C3_ModePriority ==
    (Returned("volume-list") /\ Answered) =>
        /\ c.simplified =>
              /\ Len(stdout) = Len(volumes)
              /\ \A i \in DOMAIN stdout : DOMAIN stdout[i] = {"line"}
        /\ (~c.simplified /\ c.json) => (Len(stdout) = 1 /\ DOMAIN stdout[1] = {"json"})
        /\ (~c.simplified /\ ~c.json) =>
              /\ Len(stdout) = 1
              /\ DOMAIN stdout[1] = {"headers", "rows"}
              /\ stdout[1].headers = ListHeaders

\* C3's case: -q and --json together, with volumes to show.
C3_Witness ==
    /\ Returned("volume-list") /\ Answered
    /\ c.simplified /\ c.json
    /\ Len(stdout) = 2 /\ stdout[1] = NameLine(d1)

\* C4: a 204 response is a success that never reaches the JSON decoder: list
\* and info write exactly "No volumes available." whatever the flags, and
\* plan-list renders a table with headers only.
C4_NoContent ==
    (pc = "done" /\ env.status = StatusNoContent) =>
        /\ err = Nil
        /\ unmarshals = 0
        /\ cmd \in {"volume-list", "volume-info"} => stdout = <<Text("No volumes available.\n")>>
        /\ cmd = "volume-plan-list" => stdout = <<Table(PlanHeaders, <<>>)>>

\* C4's case: volume-list -q --json gets a 204 whose (empty) body the
\* decoder would reject.
C4_Witness ==
    /\ Returned("volume-list")
    /\ env.status = StatusNoContent /\ env.fault = "Unmarshal"
    /\ c.simplified /\ c.json
    /\ stdout = <<Text("No volumes available.\n")>>

\* The transport, the body read or the decoding failed.
Failure ==
    \/ env.fault \in {"Do", "StreamJSONResponse"}
    \/ env.fault \in {"ReadAll", "Unmarshal"} /\ env.status # StatusNoContent

\* C5: when the transport, the body read or the decoding fails, Run returns
\* that error and writes no confirmation line and no rendered output (only
\* what bind and unbind had streamed before); a confirmation line or a
\* rendering is written only when Run returns no error.
C5_ErrorsAbort ==
    pc = "done" =>
        /\ Failure => err = ErrorOf(env.fault)
        /\ err # Nil =>
              /\ \A i \in DOMAIN stdout : DOMAIN stdout[i] = {"chunk"}
              /\ cmd \notin {"volume-bind", "volume-unbind"} => stdout = <<>>

\* C5's case: bind's stream fails after two messages were written.
C5_Witness ==
    /\ Returned("volume-bind")
    /\ env.fault = "StreamJSONResponse"
    /\ Len(env.body) = 2
    /\ err = ErrorOf("StreamJSONResponse")
    /\ Len(stdout) = 2

\* The calls whose failure ends Run before the transport is used.
BeforeTransport == {"AppName", "EncodeToValues", "GetURLVersion", "NewRequest"}

\* C6: Run makes at most one outbound call; when app-name resolution, form
\* encoding, URL resolution or request construction fails it returns that
\* error with no call made and nothing written; otherwise it makes exactly
\* one call.
C6_OneCall ==
    pc = "done" =>
        /\ Len(requests) <= 1
        /\ env.fault \in BeforeTransport =>
              (err = ErrorOf(env.fault) /\ requests = <<>> /\ stdout = <<>>)
        /\ env.fault \notin BeforeTransport => Len(requests) = 1

\* C6's case: bind cannot resolve the application name.
C6_Witness ==
    /\ Returned("volume-bind")
    /\ env.fault = "AppName"
    /\ requests = <<>> /\ stdout = <<>> /\ err = ErrorOf("AppName")

\* The fixed confirmation line of each write command.
Confirmation ==
    [k \in {"volume-create", "volume-update", "volume-delete", "volume-bind", "volume-unbind"} |->
        CASE k = "volume-create" -> Text("Volume successfully created.\n")
          [] k = "volume-update" -> Text("Volume successfully updated.\n")
          [] k = "volume-delete" -> Text("Volume successfully deleted.\n")
          [] k = "volume-bind" -> Text("Volume successfully bound.\n")
          [] k = "volume-unbind" -> Text("Volume successfully unbound.\n")]

\* The response body, message by message, then the confirmation line.
BodyThenConfirmation == [i \in DOMAIN env.body |-> Chunk(env.body[i])] \o <<Confirmation[cmd]>>

\* C7 as stated: on success bind, unbind and create write the response body
\* and then their confirmation line; update and delete write only their
\* confirmation line.
C7_CreateStreams ==
    (pc = "done" /\ err = Nil) =>
        /\ cmd \in {"volume-bind", "volume-unbind", "volume-create"} => stdout = BodyThenConfirmation
        /\ cmd \in {"volume-update", "volume-delete"} => stdout = <<Confirmation[cmd]>>

\* C7, amended: on success bind and unbind write the response body and then
\* their confirmation line, as the last output; create, update and delete
\* write only their confirmation line.
C7_StreamThenConfirm ==
    (pc = "done" /\ err = Nil) =>
        /\ cmd \in {"volume-bind", "volume-unbind"} => stdout = BodyThenConfirmation
        /\ cmd \in {"volume-create", "volume-update", "volume-delete"} =>
              stdout = <<Confirmation[cmd]>>

\* C7's case: bind streams two messages, then confirms.
C7_Witness ==
    /\ Returned("volume-bind") /\ err = Nil
    /\ Len(env.body) = 2
    /\ Len(stdout) = 3
    /\ stdout[1] = Chunk(env.body[1])
    /\ stdout[3] = Text("Volume successfully bound.\n")
\* The criterion volume-list sends under each query key.
Criterion ==
    [k \in {"name", "pool", "plan", "teamOwner"} |->
        CASE k = "name" -> c.filter.name
          [] k = "pool" -> c.filter.pool
          [] k = "plan" -> c.filter.plan
          [] k = "teamOwner" -> c.filter.teamOwner]

\* C8: the query string volume-list sends holds the key name, pool, plan or
\* teamOwner if and only if that criterion is not empty, with the criterion
\* as its single value, and no other key: the criteria sent are the
\* criteria the client-side filter enforces.
C8_QueryString ==
    (Returned("volume-list") /\ requests # <<>>) =>
        LET query == requests[1].query IN
        /\ \A k \in DOMAIN Criterion :
              /\ (\E pair \in query : pair.key = k) <=> Criterion[k] # <<>>
              /\ Cardinality({pair \in query : pair.key = k}) <= 1
        /\ \A pair \in query : pair.key \in DOMAIN Criterion /\ pair.value = Criterion[pair.key]
        /\ Answered =>
              \A v \in {env.body[i] : i \in DOMAIN env.body} :
                  (\E j \in DOMAIN volumes : volumes[j] = v) <=>
                      \A pair \in query :
                          CASE pair.key = "name" -> IsSubstring(v.Name, pair.value)
                            [] pair.key = "pool" -> v.Pool = pair.value
                            [] pair.key = "plan" -> v.Plan.Name = pair.value
                            [] pair.key = "teamOwner" -> v.TeamOwner = pair.value

\* C8's case: a name and a team criterion, no pool and no plan.
C8_Witness ==
    /\ Returned("volume-list") /\ requests # <<>>
    /\ c.filter = [NoFilter EXCEPT !.name = <<"d">>, !.teamOwner = <<"t">>]
    /\ requests[1].query = {[key |-> "name", value |-> <<"d">>],
                            [key |-> "teamOwner", value |-> <<"t">>]}

\* The pairs of the form body create or update sent under the key k.
FormPairs(k) == {pair \in requests[1].form : pair.key = k}

\* Name and Plan.Name carry the two positional arguments.
FormNames ==
    /\ FormPairs(FormKey("Name")) = {[key |-> FormKey("Name"), value |-> args[1]]}
    /\ FormPairs(FormKey("Plan.Name")) = {[key |-> FormKey("Plan.Name"), value |-> args[2]]}

\* One entry per given option, addressed by its key, and no other.
FormOpts ==
    \A pair \in requests[1].form :
        (pair.key.field = "Opts" /\ "key" \in DOMAIN pair.key) =>
            (pair.key.key \in DOMAIN c.opt /\ pair.value = c.opt[pair.key.key])

FormOptsComplete ==
    \A k \in DOMAIN c.opt :
        FormPairs(FormMapKey("Opts", k)) = {[key |-> FormMapKey("Opts", k), value |-> c.opt[k]]}

Before(a, b, columns) ==
    \E k \in DOMAIN columns :
        /\ \A m \in 1..(k - 1) : a[columns[m]] = b[columns[m]]
        /\ StrLess(a[columns[k]], b[columns[k]])

Ascending(rows, columns) ==
    \A i, j \in DOMAIN rows : i < j => ~Before(rows[j], rows[i], columns)

\* The sequences holding the elements of s in another order.
Shuffles(s) == {[i \in DOMAIN s |-> s[o[i]]] : o \in Permutations(DOMAIN s)}

\* The plan-list responses holding the plans of m, each provisioner's in
\* another order.
Reorderings(m) ==
    {r \in [DOMAIN m -> UNION {Shuffles(m[p]) : p \in DOMAIN m}] :
        \A p \in DOMAIN m : r[p] \in Shuffles(m[p])}

\* The decoded plans of a plan-list response.
DecodedPlans == IF env.status = StatusNoContent THEN <<>> ELSE env.body[1]

\* The Opts cell of a plan: its "key: value" texts in ascending order, one
\* per line.
SortedCell(planOpts) ==
    LET texts == {k \o <<":", " ">> \o planOpts[k] : k \in DOMAIN planOpts}
        sorted == CHOOSE q \in [1..Cardinality(texts) -> texts] :
                      \A i, j \in 1..Cardinality(texts) : i < j => StrLess(q[i], q[j])
    IN  Join(sorted, <<"\n">>)

\* The list table: the rows of the kept volumes, ascending by Name, then
\* Plan, Pool and Team, whatever the order of the response.
ListTableSorted ==
    (Returned("volume-list") /\ Answered /\ ~c.simplified /\ ~c.json) =>
        /\ Ascending(stdout[1].rows, <<1, 2, 3, 4>>)
        /\ stdout[1].rows \in Shuffles(ListRows(volumes))
        /\ \A other \in Shuffles(env.body) :
              VolumeListRender(c, clientSideFilter(c.filter, other)) = {stdout}

\* The plan-list table: one row per plan, ascending by (Plan, Provisioner),
\* each Opts cell in lexicographic order.
PlanTableSorted ==
    (Returned("volume-plan-list") /\ err = Nil) =>
        /\ Ascending(stdout[1].rows, <<1, 2>>)
        /\ \E rows \in PlanRows(DecodedPlans) : stdout[1].rows \in Shuffles(rows)
        /\ \A r \in {stdout[1].rows[i] : i \in DOMAIN stdout[1].rows} :
              \E p \in DOMAIN DecodedPlans : \E i \in DOMAIN DecodedPlans[p] :
                  r = <<DecodedPlans[p][i].Name, p, SortedCell(DecodedPlans[p][i].Opts)>>

\* Every response holding the same plans in another order renders the
\* table that was written.
PlanTableSame ==
    \A other \in Reorderings(DecodedPlans) : VolumePlansListRender(other) = {stdout}

\* Two plans of one provisioner have the same name and different options.
AmbiguousPlans ==
    \E p \in DOMAIN DecodedPlans : \E i, j \in DOMAIN DecodedPlans[p] :
        /\ DecodedPlans[p][i].Name = DecodedPlans[p][j].Name
        /\ DecodedPlans[p][i].Opts # DecodedPlans[p][j].Opts

\* C10 as stated: the list table is ascending by Name, ties broken by the
\* following columns, the plan-list table ascending by (Plan, Provisioner)
\* with sorted Opts cells, so that responses holding the same volumes or
\* plans in different orders render the same table.
C10_TablesDeterministic ==
    /\ ListTableSorted
    /\ PlanTableSorted
    /\ (Returned("volume-plan-list") /\ err = Nil) => PlanTableSame

\* C10, amended: the same, except that the plan-list table is the same for
\* every order of the response only when no provisioner has two plans of
\* one name with different options: such rows are equal in (Plan,
\* Provisioner) and the sort leaves them in an order that depends on the
\* order of the response.
C10_TablesSorted ==
    /\ ListTableSorted
    /\ PlanTableSorted
    /\ (Returned("volume-plan-list") /\ err = Nil /\ ~AmbiguousPlans) => PlanTableSame

\* C10's case: provisioner d delivers the plans n, e and provisioner k the
\* plan n; the table lists e, then n of d, then n of k.
C10_Witness ==
    /\ Returned("volume-plan-list") /\ err = Nil /\ env.status # StatusNoContent
    /\ DOMAIN env.body[1] = {<<"d">>, <<"k">>}
    /\ Len(env.body[1][<<"d">>]) = 2
    /\ env.body[1][<<"d">>][1].Name = <<"n">> /\ DOMAIN env.body[1][<<"d">>][1].Opts # {}
    /\ env.body[1][<<"d">>][2].Name = <<"e">>
    /\ stdout[1].rows = << <<<<"e">>, <<"d">>, <<>>>>,
                           <<<<"n">>, <<"d">>, <<"a", ":", " ", "r", "w", "\n", "s", ":", " ", "1">>>>,
                           <<<<"n">>, <<"k">>, <<>>>> >>
====
